---- MODULE Spec2Model ----
(***************************************************************************)
(* Model of the Polaris Music Registry substreams module                   *)
(* (substreams/src/lib.rs): the two map handlers that walk a block's       *)
(* action traces (map_events, map_anchored_events) and the two store       *)
(* handlers that aggregate the extracted events (store_stats,              *)
(* store_account_activity).                                                *)
(*                                                                         *)
(* Strings that the code only copies are TLA+ strings.  A JSON text is a   *)
(* sequence of tokens, so that parsing (which drops whitespace and fails   *)
(* on an unterminated document), serialising and hashing are different     *)
(* operations on it.  Option<T> is a sequence of length 0 or 1.            *)
(***************************************************************************)
EXTENDS Naturals, Integers, Sequences, FiniteSets, TLC

\* ------------------------------------------------------------------ bounds
\* Transactions in a block.
MaxTrx == 2
\* Action traces in a block, over all its transactions.
MaxTraces == 3

\* ------------------------------------------------------------------ Option
None == <<>>
Some(x) == <<x>>
IsSome(o) == Len(o) = 1
IsNone(o) == Len(o) = 0

\* ------------------------------------------------------------------ JSON
\* serde_json::Value, as far as the code looks at it: a string or not.
JStr(s) == [t |-> "str", s |-> s]
JNum(s) == [t |-> "num", s |-> s]
JArr(s) == [t |-> "arr", s |-> s]

\* Tokens of a JSON text.
LBrace == [k |-> "{", key |-> "", val |-> JStr("")]
RBrace == [k |-> "}", key |-> "", val |-> JStr("")]
Space == [k |-> " ", key |-> "", val |-> JStr("")]
Pair(key, val) == [k |-> ":", key |-> key, val |-> val]

\* serde_json::from_str::<Value>: Err unless the text is one object; inside
\* it whitespace is skipped and the members are kept in order.
JsonWellFormed(text) ==
    /\ Len(text) >= 2
    /\ text[1].k = "{"
    /\ text[Len(text)].k = "}"
    /\ \A i \in 2..(Len(text) - 1) : text[i].k \in {":", " "}

IsMember(tok) == tok.k = ":"

from_str(text) ==
    IF JsonWellFormed(text)
    THEN [ok |-> TRUE, val |-> SelectSeq(text, IsMember)]
    ELSE [ok |-> FALSE, val |-> <<>>]

\* Value::get(key): the member of that name (the last one, as serde_json's
\* map keeps the last of duplicate keys), or None.
get(val, key) ==
    LET idx == {i \in 1..Len(val) : val[i].key = key}
    IN IF idx = {} THEN None
       ELSE Some(val[CHOOSE i \in idx : \A j \in idx : j <= i].val)

\* Value::as_str
as_str(v) == IF v.t = "str" THEN Some(v.s) ELSE None

\* Option::and_then(as_str)
get_str(val, key) ==
    LET h == get(val, key)
    IN IF IsNone(h) THEN None ELSE as_str(h[1])

\* serde_json::json!({..}).to_string(): compact, members in key order.
to_string(members) == <<LBrace>> \o members \o <<RBrace>>

\* The characters of one token, and of a text.
TokenChars(tok) ==
    IF tok.k # ":" THEN tok.k
    ELSE "'" \o tok.key \o "':"
         \o (IF tok.val.t = "str" THEN "'" \o tok.val.s \o "'" ELSE tok.val.s)
         \o ","

RECURSIVE Chars(_)
Chars(text) ==
    IF text = <<>> THEN "" ELSE TokenChars(Head(text)) \o Chars(Tail(text))

\* hex::encode(Sha256::digest(bytes)): a string determined by the bytes, and
\* by nothing else.
Sha256Hex(bytes) == "sha256(" \o Chars(bytes) \o ")"

\* ------------------------------------------------------------------ decode
Accounts == <<"alice", "bob">>
Hashes == <<"abc123", "def456">>

\* The account-typed field of each action's layout.
AccountField(name) ==
    CASE name = "put" -> "author"
      [] name = "attest" -> "attestor"
      [] name = "vote" -> "voter"
      [] name \in {"stake", "unstake", "like", "unlike"} -> "account"
      [] OTHER -> ""

\* The checksum-typed field of each action's layout.
HashField(name) ==
    CASE name = "put" -> "hash"
      [] name \in {"attest", "vote", "finalize"} -> "tx_hash"
      [] name \in {"stake", "unstake", "like", "unlike"} -> "node_id"
      [] OTHER -> ""

DecodeFailure == [ok |-> FALSE, account |-> "", hash |-> ""]

\* JSON-available path: a structural mapping of the document; a missing
\* field or one of the wrong type is a failure.
DecodeJson(name, text) ==
    LET doc == from_str(text)
        a == IF AccountField(name) = "" THEN Some("")
             ELSE get_str(doc.val, AccountField(name))
        h == IF HashField(name) = "" THEN Some("")
             ELSE get_str(doc.val, HashField(name))
    IN IF doc.ok /\ IsSome(a) /\ IsSome(h)
       THEN [ok |-> TRUE, account |-> a[1], hash |-> h[1]]
       ELSE DecodeFailure

\* Raw-bytes path: the binary layout is one byte naming the account and one
\* naming the checksum; any other length is a truncated payload.
DecodeRaw(name, raw) ==
    IF Len(raw) = 2 /\ raw[1] \in 1..Len(Accounts) /\ raw[2] \in 1..Len(Hashes)
    THEN [ok |-> TRUE, account |-> Accounts[raw[1]], hash |-> Hashes[raw[2]]]
    ELSE DecodeFailure

\* <Action>::decode(action_trace): the JSON path when a JSON payload is
\* present, the raw-bytes path otherwise.
decode(name, action) ==
    IF action.json_data # <<>>
    THEN DecodeJson(name, action.json_data)
    ELSE DecodeRaw(name, action.raw_data)

\* ------------------------------------------------------------------ blocks
\* params.is_empty() ? "polaris" : params
contract_account(params) == IF params = "" THEN "polaris" ELSE params

\* block_timestamp defaulting to the block number.
block_timestamp_default_number(block) ==
    IF IsNone(block.header) THEN block.number
    ELSE IF IsNone(block.header[1].timestamp) THEN block.number
    ELSE block.header[1].timestamp[1].seconds

\* header.as_ref().and_then(|h| h.timestamp.as_ref()).map(|t| t.seconds)
\*       .unwrap_or(0)
block_timestamp(block) ==
    IF IsNone(block.header) THEN 0
    ELSE IF IsNone(block.header[1].timestamp) THEN 0
    ELSE block.header[1].timestamp[1].seconds

\* Positions <<t, a>> of all the action traces of the block, transaction by
\* transaction, trace by trace.
RECURSIVE TracePositions(_, _)
TracePositions(block, t) ==
    IF t > Len(block.transactions) THEN <<>>
    ELSE [a \in 1..Len(block.transactions[t].action_traces) |-> <<t, a>>]
         \o TracePositions(block, t + 1)

TrxAt(block, pos) == block.transactions[pos[1]]
TraceAt(block, pos) == block.transactions[pos[1]].action_traces[pos[2]]

\* Block::action_traces(): the (action_trace, trx) pairs of the executed
\* transactions (those with a receipt), in execution order.
Executed(trx) == IsSome(trx.receipt) /\ trx.receipt[1].status = "executed"

\* action_traces over every transaction trace, executed or not.
action_traces_unfiltered(block) == TracePositions(block, 1)

action_traces(block) ==
    LET all == TracePositions(block, 1)
        Keep(pos) == Executed(TrxAt(block, pos))
    IN SelectSeq(all, Keep)

\* filter_map collecting at the front: the Some values, last first.
RECURSIVE filter_map_reversed(_)
filter_map_reversed(opts) ==
    IF opts = <<>> THEN <<>>
    ELSE IF IsNone(Head(opts)) THEN filter_map_reversed(Tail(opts))
    ELSE filter_map_reversed(Tail(opts)) \o <<Head(opts)[1]>>

\* filter_map as collecting into an Option: one None empties the result.
filter_map_all_or_nothing(opts) ==
    IF \E i \in 1..Len(opts) : IsNone(opts[i]) THEN <<>>
    ELSE [i \in 1..Len(opts) |-> opts[i][1]]

\* Iterator::filter_map(..).collect(): the Some values, in order.
RECURSIVE filter_map(_)
filter_map(opts) ==
    IF opts = <<>> THEN <<>>
    ELSE IF IsNone(Head(opts)) THEN filter_map(Tail(opts))
    ELSE <<Head(opts)[1]>> \o filter_map(Tail(opts))


\* ------------------------------------------------------------------ events
\* An Event: provenance, the type tag and the typed payload (the oneof).
Event(tx_hash, block_num, timestamp, event_type, payload) ==
    [tx_hash |-> tx_hash, block_num |-> block_num, timestamp |-> timestamp,
     event_type |-> event_type, data |-> Some([event |-> Some(payload)])]

extract_put_event(tx_hash, block_num, timestamp, action_trace) ==
    LET put == decode("put", action_trace.action[1])
    IN IF ~put.ok THEN None
       ELSE Some(Event(tx_hash, block_num, timestamp, "PUT",
                [kind |-> "Put", author |-> put.account, hash |-> put.hash,
                 expires_at |-> 0]))

extract_attest_event(tx_hash, block_num, timestamp, action_trace) ==
    LET attest == decode("attest", action_trace.action[1])
    IN IF ~attest.ok THEN None
       ELSE Some(Event(tx_hash, block_num, timestamp, "ATTEST",
                [kind |-> "Attest", attestor |-> attest.account,
                 tx_hash |-> attest.hash]))

extract_vote_event(tx_hash, block_num, timestamp, action_trace) ==
    LET vote == decode("vote", action_trace.action[1])
    IN IF ~vote.ok THEN None
       ELSE Some(Event(tx_hash, block_num, timestamp, "VOTE",
                [kind |-> "Vote", voter |-> vote.account,
                 tx_hash |-> vote.hash, weight |-> 0]))

extract_finalize_event(tx_hash, block_num, timestamp, action_trace) ==
    LET finalize == decode("finalize", action_trace.action[1])
    IN IF ~finalize.ok THEN None
       ELSE Some(Event(tx_hash, block_num, timestamp, "FINALIZE",
                [kind |-> "Finalize", tx_hash |-> finalize.hash,
                 accepted |-> FALSE, approval_percent |-> 0,
                 reward_amount |-> 0]))

extract_stake_event(tx_hash, block_num, timestamp, action_trace) ==
    LET stake == decode("stake", action_trace.action[1])
    IN IF ~stake.ok THEN None
       ELSE Some(Event(tx_hash, block_num, timestamp, "STAKE",
                [kind |-> "Stake", account |-> stake.account,
                 node_id |-> stake.hash]))

extract_unstake_event(tx_hash, block_num, timestamp, action_trace) ==
    LET unstake == decode("unstake", action_trace.action[1])
    IN IF ~unstake.ok THEN None
       ELSE Some(Event(tx_hash, block_num, timestamp, "UNSTAKE",
                [kind |-> "Unstake", account |-> unstake.account,
                 node_id |-> unstake.hash]))

extract_like_event(tx_hash, block_num, timestamp, action_trace) ==
    LET like == decode("like", action_trace.action[1])
    IN IF ~like.ok THEN None
       ELSE Some(Event(tx_hash, block_num, timestamp, "LIKE",
                [kind |-> "Like", account |-> like.account,
                 node_id |-> like.hash]))

extract_unlike_event(tx_hash, block_num, timestamp, action_trace) ==
    LET unlike == decode("unlike", action_trace.action[1])
    IN IF ~unlike.ok THEN None
       ELSE Some(Event(tx_hash, block_num, timestamp, "UNLIKE",
                [kind |-> "Unlike", account |-> unlike.account,
                 node_id |-> unlike.hash]))

extract_update_respect_event(tx_hash, block_num, timestamp, action_trace) ==
    LET update == decode("updrespect", action_trace.action[1])
    IN IF ~update.ok THEN None
       ELSE Some(Event(tx_hash, block_num, timestamp, "UPDATE_RESPECT",
                [kind |-> "Updrespect", updates |-> <<>>,
                 election_round |-> 0]))

\* The closure of map_events' filter_map, on one (action_trace, trx) pair.
map_events_closure(params, block, pos) ==
    LET action_trace == TraceAt(block, pos)
        trx == TrxAt(block, pos)
        block_num == block.number
        timestamp == block_timestamp(block)
    IN IF action_trace.receiver # contract_account(params) THEN None
       ELSE IF IsNone(action_trace.action) THEN None
       ELSE LET name == action_trace.action[1].name
            IN CASE name = "put" ->
                      extract_put_event(trx.id, block_num, timestamp, action_trace)
                 [] name = "attest" ->
                      extract_attest_event(trx.id, block_num, timestamp, action_trace)
                 [] name = "vote" ->
                      extract_vote_event(trx.id, block_num, timestamp, action_trace)
                 [] name = "finalize" ->
                      extract_finalize_event(trx.id, block_num, timestamp, action_trace)
                 [] name = "stake" ->
                      extract_stake_event(trx.id, block_num, timestamp, action_trace)
                 [] name = "unstake" ->
                      extract_unstake_event(trx.id, block_num, timestamp, action_trace)
                 [] name = "like" ->
                      extract_like_event(trx.id, block_num, timestamp, action_trace)
                 [] name = "unlike" ->
                      extract_unlike_event(trx.id, block_num, timestamp, action_trace)
                 [] name = "updrespect" ->
                      extract_update_respect_event(trx.id, block_num, timestamp,
                                                   action_trace)
                 [] OTHER -> None

\* A record produced by a closure, tagged with the position of the action
\* trace the closure was applied to.
Tagged(pos, opt) ==
    IF IsNone(opt) THEN None ELSE Some([origin |-> pos, rec |-> opt[1]])

Origins(tagged) == [i \in 1..Len(tagged) |-> tagged[i].origin]
Records(tagged) == [i \in 1..Len(tagged) |-> tagged[i].rec]

\* map_events: the Events of the block, each with the trace it came from.
map_events_tagged(params, block) ==
    LET walk == action_traces(block)
    IN filter_map([i \in 1..Len(walk) |->
                     Tagged(walk[i], map_events_closure(params, block, walk[i]))])

\* map_events: Ok(Events { events }).
map_events(params, block) ==
    [ok |-> TRUE, events |-> Records(map_events_tagged(params, block))]


\* ------------------------------------------------------------------ anchored
\* A log::info! entry written while the closure handles the trace at `pos`.
LogAt(pos, msg) == [at |-> Some(pos), msg |-> msg]
\* A log::info! entry written by the handler itself, after its loop.
LogEnd(msg) == [at |-> None, msg |-> msg]

\* put_content_hash that always hashes the JSON text.
put_content_hash_hashed(pos, json_str) ==
    [content_hash |-> Sha256Hex(json_str), log |-> <<>>]

\* put_content_hash without the fallback: no hash member, no content hash.
put_content_hash_no_fallback(pos, json_str) ==
    LET parsed == from_str(json_str)
        h == IF parsed.ok THEN get_str(parsed.val, "hash") ELSE None
    IN [content_hash |-> IF IsSome(h) THEN h[1] ELSE "", log |-> <<>>]

\* Path 1, action.name == "put": the document's "hash" member if it is a
\* string, else the digest of the JSON text; a text that does not parse is
\* logged and hashed.
put_content_hash(pos, json_str) ==
    LET parsed == from_str(json_str)
    IN IF parsed.ok
       THEN LET h == get_str(parsed.val, "hash")
            IN [content_hash |-> IF IsSome(h) THEN h[1] ELSE Sha256Hex(json_str),
                log |-> <<>>]
       ELSE [content_hash |-> Sha256Hex(json_str),
             log |-> <<LogAt(pos, "Failed to parse put action JSON for content_hash")>>]

\* Path 1: json_data available.
json_path(pos, action) ==
    LET json_str == action.json_data
        put == put_content_hash(pos, json_str)
    IN IF action.name = "put"
       THEN [some |-> TRUE, json_data |-> json_str,
             content_hash |-> put.content_hash, log |-> put.log]
       ELSE [some |-> TRUE, json_data |-> json_str,
             content_hash |-> Sha256Hex(json_str), log |-> <<>>]

\* The canonical JSON payload built from a decoded Put.
put_json_payload(put_action) ==
    to_string(<<Pair("author", JStr(put_action.account)),
                Pair("event_cid", JStr("")),
                Pair("hash", JStr(put_action.hash)),
                Pair("parent", JStr("")),
                Pair("tags", JArr("[]")),
                Pair("ts", JNum("0")),
                Pair("type", JNum("0"))>>)

\* raw_path falling back to the digest of the raw bytes when the decode fails.
raw_path_fallback(pos, action_trace) ==
    LET action == action_trace.action[1]
        put_action == decode("put", action)
    IN IF action.name # "put"
       THEN [some |-> FALSE, json_data |-> <<>>, content_hash |-> "",
             log |-> <<LogAt(pos, "Skipping non-put action without json_data: "
                                   \o action.name)>>]
       ELSE IF ~put_action.ok
       THEN [some |-> TRUE, json_data |-> <<>>,
             content_hash |-> Sha256Hex(<<>>),
             log |-> <<LogAt(pos, "Failed to decode put action")>>]
       ELSE [some |-> TRUE,
             json_data |-> put_json_payload(put_action),
             content_hash |-> put_action.hash,
             log |-> <<LogAt(pos, "Decoded put from raw bytes: hash="
                                   \o put_action.hash \o ", author="
                                   \o put_action.account)>>]

\* Path 2: json_data missing; only a put is decoded, from its raw bytes.
raw_path(pos, action_trace) ==
    LET action == action_trace.action[1]
        put_action == decode("put", action)
        skip(msg) == [some |-> FALSE, json_data |-> <<>>, content_hash |-> "",
                      log |-> <<LogAt(pos, msg)>>]
    IN IF action.name # "put"
       THEN skip("Skipping non-put action without json_data: " \o action.name)
       ELSE IF ~put_action.ok
       THEN skip("Failed to decode put action")
       ELSE [some |-> TRUE,
             json_data |-> put_json_payload(put_action),
             content_hash |-> put_action.hash,
             log |-> <<LogAt(pos, "Decoded put from raw bytes: hash="
                                   \o put_action.hash \o ", author="
                                   \o put_action.account)>>]

\* AnchoredEvent with the transaction id mixed into the digest.
AnchoredEvent_salted(content_hash, json_data, contract, block, trx, action_trace) ==
    [content_hash |-> content_hash,
     event_hash |-> Sha256Hex(json_data) \o trx.id,
     payload |-> json_data,
     block_num |-> block.number,
     block_id |-> block.id,
     trx_id |-> trx.id,
     action_ordinal |-> action_trace.execution_index,
     timestamp |-> block_timestamp(block),
     source |-> "substreams-eos",
     contract_account |-> contract,
     action_name |-> action_trace.action[1].name]

\* The digest of the payload, and the AnchoredEvent built around it.
AnchoredEvent(content_hash, json_data, contract, block, trx, action_trace) ==
    [content_hash |-> content_hash,
     event_hash |-> Sha256Hex(json_data),
     payload |-> json_data,
     block_num |-> block.number,
     block_id |-> block.id,
     trx_id |-> trx.id,
     action_ordinal |-> action_trace.execution_index,
     timestamp |-> block_timestamp(block),
     source |-> "substreams-eos",
     contract_account |-> contract,
     action_name |-> action_trace.action[1].name]

\* The closure of map_anchored_events' filter_map, on one (action_trace,
\* trx) pair: the AnchoredEvent it yields, if any, and what it logs.
map_anchored_events_closure(params, block, pos) ==
    LET action_trace == TraceAt(block, pos)
        trx == TrxAt(block, pos)
        nothing == [out |-> None, log |-> <<>>]
    IN IF action_trace.receiver # contract_account(params) THEN nothing
       ELSE IF IsNone(action_trace.action) THEN nothing
       ELSE LET action == action_trace.action[1]
            IN IF action.name \notin {"put", "vote", "finalize"} THEN nothing
               ELSE LET r == IF action.json_data # <<>>
                             THEN json_path(pos, action)
                             ELSE raw_path(pos, action_trace)
                    IN IF ~r.some THEN [out |-> None, log |-> r.log]
                       ELSE [out |-> Some(AnchoredEvent(r.content_hash, r.json_data,
                                            contract_account(params), block, trx,
                                            action_trace)),
                             log |-> r.log]

RECURSIVE Concat(_)
Concat(seqs) == IF seqs = <<>> THEN <<>> ELSE Head(seqs) \o Concat(Tail(seqs))

\* map_anchored_events: the AnchoredEvents of the block, each with the trace
\* it came from.
map_anchored_events_tagged(params, block) ==
    LET walk == action_traces(block)
    IN filter_map([i \in 1..Len(walk) |->
         Tagged(walk[i], map_anchored_events_closure(params, block, walk[i]).out)])

\* map_anchored_events: Ok(AnchoredEvents { events }).
map_anchored_events(params, block) ==
    [ok |-> TRUE, events |-> Records(map_anchored_events_tagged(params, block))]

\* What map_anchored_events logs: the closures' entries in trace order, then
\* the count.
map_anchored_events_log(params, block) ==
    LET walk == action_traces(block)
    IN Concat([i \in 1..Len(walk) |->
                 map_anchored_events_closure(params, block, walk[i]).log])
       \o <<LogEnd("Extracted anchored events from block")>>

\* What map_events logs: the count.
map_events_log(params, block) == <<LogEnd("Extracted events from block")>>


\* ------------------------------------------------------------------ stores
\* An Aggregate Store: the keys written so far and their sums.
EmptyStore == <<>>

\* StoreGet: the value of a key; a key never written reads as 0.
StoreGet(store, key) == IF key \in DOMAIN store THEN store[key] ELSE 0

\* StoreAdd as a last-write-wins store would do it (set instead of add).
StoreAdd_overwrite(store, key, value) ==
    IF key \in DOMAIN store
    THEN [store EXCEPT ![key] = value]
    ELSE store @@ (key :> value)

\* StoreAddInt64::add(0, key, value)
StoreAdd(store, key, value) ==
    IF key \in DOMAIN store
    THEN [store EXCEPT ![key] = @ + value]
    ELSE store @@ (key :> value)

\* Some(EventData { event: Some(ref data) }) = event.data
EventPayload(event) ==
    IF IsNone(event.data) THEN None
    ELSE IF IsNone(event.data[1].event) THEN None
    ELSE Some(event.data[1].event[1])

\* The body of store_stats' loop, for one event.
store_stats_event(event, store) ==
    LET counted == StoreAdd(store, "total_events", 1)
        data == EventPayload(event)
    IN IF IsNone(data) THEN counted
       ELSE CASE data[1].kind = "Put" -> StoreAdd(counted, "total_puts", 1)
              [] data[1].kind = "Vote" -> StoreAdd(counted, "total_votes", 1)
              [] data[1].kind = "Stake" -> StoreAdd(counted, "total_stakes", 1)
              [] data[1].kind = "Like" -> StoreAdd(counted, "total_likes", 1)
              [] OTHER -> counted

\* store_stats: for event in &events.events
RECURSIVE store_stats(_, _)
store_stats(events, store) ==
    IF events = <<>> THEN store
    ELSE store_stats(Tail(events), store_stats_event(Head(events), store))

\* account_key attributing every event that carries an account field.
account_key_any_account(data) ==
    CASE data.kind = "Put" -> Some(data.author)
      [] data.kind = "Vote" -> Some(data.voter)
      [] data.kind \in {"Stake", "Like", "Unstake", "Unlike"} -> Some(data.account)
      [] OTHER -> None

\* The account an event is attributed to.
account_key(data) ==
    CASE data.kind = "Put" -> Some(data.author)
      [] data.kind = "Vote" -> Some(data.voter)
      [] data.kind = "Stake" -> Some(data.account)
      [] data.kind = "Like" -> Some(data.account)
      [] OTHER -> None

\* The body of store_account_activity's loop, for one event.
store_account_activity_event(event, store) ==
    LET data == EventPayload(event)
        account == IF IsNone(data) THEN None ELSE account_key(data[1])
    IN IF IsNone(account) THEN store
       ELSE StoreAdd(
              StoreAdd(store, "account:" \o account[1] \o ":events", 1),
              "account:" \o account[1] \o ":last_block", event.block_num)

\* store_account_activity: for event in &events.events
RECURSIVE store_account_activity(_, _)
store_account_activity(events, store) ==
    IF events = <<>> THEN store
    ELSE store_account_activity(Tail(events),
                                store_account_activity_event(Head(events), store))


\* ------------------------------------------------------------------ inputs
\* JSON texts a block may carry.
JsonPut == <<LBrace, Pair("author", JStr("alice")),
             Pair("hash", JStr("abc123")), RBrace>>
\* The same document serialised with whitespace.
JsonPutSpaced == <<LBrace, Space, Pair("author", JStr("alice")), Space,
                   Pair("hash", JStr("abc123")), RBrace>>
JsonPutNoHash == <<LBrace, Pair("author", JStr("alice")), RBrace>>
JsonPutNumHash == <<LBrace, Pair("author", JStr("alice")),
                    Pair("hash", JNum("7")), RBrace>>
\* An unterminated document.
JsonBroken == <<LBrace, Pair("author", JStr("alice"))>>
JsonVote == <<LBrace, Pair("voter", JStr("bob")),
              Pair("tx_hash", JStr("def456")), RBrace>>
JsonStake == <<LBrace, Pair("account", JStr("bob")),
               Pair("node_id", JStr("def456")), RBrace>>

Action(name, json_data, raw_data) ==
    [name |-> name, json_data |-> json_data, raw_data |-> raw_data]

\* Actions a trace may carry: every name class the handlers tell apart, with
\* and without a JSON payload, with raw bytes that decode and raw bytes that
\* are truncated.
InputActions ==
    {Action("put", JsonPut, <<1, 1>>),
     Action("put", JsonPutSpaced, <<1, 1>>),
     Action("put", JsonPutNoHash, <<1, 1>>),
     Action("put", JsonPutNumHash, <<1, 1>>),
     Action("put", JsonBroken, <<1, 1>>),
     Action("put", <<>>, <<1, 1>>),
     Action("put", <<>>, <<1>>),
     Action("vote", JsonVote, <<2, 2>>),
     Action("vote", <<>>, <<2, 2>>),
     Action("stake", JsonStake, <<2, 2>>),
     Action("setoracle", <<>>, <<1, 1>>)}

\* Action traces a transaction may carry (execution_index is set when the
\* trace is appended).
InputTraces ==
    [receiver : {"polaris"}, action : {Some(a) : a \in InputActions} \cup {None}]
    \cup [receiver : {"other"},
          action : {Some(Action("put", JsonPut, <<1, 1>>)),
                    Some(Action("vote", <<>>, <<2, 2>>))}]

InputReceipts == {None, Some([status |-> "executed"])}
InputHeaders == {None, Some([timestamp |-> None]),
                 Some([timestamp |-> Some([seconds |-> 1700])])}
InputParams == {"", "other"}
TrxIds == <<"trx1", "trx2", "trx3", "trx4">>

\* ------------------------------------------------------------------ state
VARIABLES
    params,        \* the handlers' parameter string
    block,         \* the block delivered to the map handlers
    events_out,    \* map_events' result for the block, once it has run
    anchored_out,  \* map_anchored_events' result for the block, once it has run
    pending,       \* the Events delivered to the store handlers
    delivered,     \* how many Events messages have been delivered
    part,          \* the sub-range the delivered Events belong to
    stats,         \* store_stats' store: over the whole range, and per sub-range
    activity,      \* store_account_activity's store, likewise
    stats_done,    \* store_stats has consumed `pending`
    activity_done  \* store_account_activity has consumed `pending`

mapVars == <<params, block, events_out, anchored_out>>
storeVars == <<pending, delivered, part, stats, activity, stats_done, activity_done>>
vars == <<params, block, events_out, anchored_out,
          pending, delivered, part, stats, activity, stats_done, activity_done>>

NumTraces(b) == Len(TracePositions(b, 1))

Ranges == {"whole", "first", "second"}

StoreInit ==
    /\ pending = <<>>
    /\ delivered = 0
    /\ part = "first"
    /\ stats = [r \in Ranges |-> EmptyStore]
    /\ activity = [r \in Ranges |-> EmptyStore]
    /\ stats_done = TRUE
    /\ activity_done = TRUE

MapInit ==
    /\ params \in InputParams
    /\ \E header \in InputHeaders :
         block = [number |-> 7, id |-> "block7", header |-> header,
                  transactions |-> <<>>]
    /\ events_out = None
    /\ anchored_out = None

Init == MapInit /\ StoreInit

\* The host appends a transaction to the block it is about to deliver.
PushTransaction ==
    /\ IsNone(events_out) /\ IsNone(anchored_out)
    /\ Len(block.transactions) < MaxTrx
    /\ \E receipt \in InputReceipts :
         block' = [block EXCEPT !.transactions =
                     Append(@, [id |-> TrxIds[Len(@) + 1], receipt |-> receipt,
                                action_traces |-> <<>>])]
    /\ UNCHANGED <<params, events_out, anchored_out>>
    /\ UNCHANGED storeVars

\* The host appends an action trace to the block's last transaction.
PushActionTrace ==
    /\ IsNone(events_out) /\ IsNone(anchored_out)
    /\ Len(block.transactions) > 0
    /\ NumTraces(block) < MaxTraces
    /\ \E tr \in InputTraces :
         LET t == Len(block.transactions)
             n == Len(block.transactions[t].action_traces)
         IN block' = [block EXCEPT !.transactions[t].action_traces =
                        Append(@, [receiver |-> tr.receiver,
                                   execution_index |-> n,
                                   action |-> tr.action])]
    /\ UNCHANGED <<params, events_out, anchored_out>>
    /\ UNCHANGED storeVars

\* map_events runs on the block.
MapEvents ==
    /\ IsNone(events_out)
    /\ events_out' = Some([result |-> map_events(params, block),
                           origin |-> Origins(map_events_tagged(params, block)),
                           log |-> map_events_log(params, block)])
    /\ UNCHANGED <<params, block, anchored_out>>
    /\ UNCHANGED storeVars

\* map_anchored_events runs on the block.
MapAnchoredEvents ==
    /\ IsNone(anchored_out)
    /\ anchored_out' =
         Some([result |-> map_anchored_events(params, block),
               origin |-> Origins(map_anchored_events_tagged(params, block)),
               log |-> map_anchored_events_log(params, block)])
    /\ UNCHANGED <<params, block, events_out>>
    /\ UNCHANGED storeVars

Next ==
    \/ PushTransaction
    \/ PushActionTrace
    \/ MapEvents
    \/ MapAnchoredEvents

Spec == Init /\ [][Next]_vars


\* ------------------------------------------------------------------ store run
\* Events messages delivered to the store handlers.
MaxDeliveries == 2
\* Events in one message.
MaxBatch == 1

\* The typed payloads map_events can emit, and an event without one.
InputPayloads ==
    {[kind |-> "Put", author |-> a, hash |-> "abc123", expires_at |-> 0]
        : a \in {"alice", "bob"}}
    \cup {[kind |-> "Vote", voter |-> "alice", tx_hash |-> "abc123", weight |-> 0],
          [kind |-> "Stake", account |-> "bob", node_id |-> "def456"],
          [kind |-> "Like", account |-> "alice", node_id |-> "def456"],
          [kind |-> "Unstake", account |-> "alice", node_id |-> "def456"],
          [kind |-> "Unlike", account |-> "alice", node_id |-> "def456"],
          [kind |-> "Attest", attestor |-> "alice", tx_hash |-> "abc123"],
          [kind |-> "Finalize", tx_hash |-> "abc123", accepted |-> FALSE,
           approval_percent |-> 0, reward_amount |-> 0],
          [kind |-> "Updrespect", updates |-> <<>>, election_round |-> 0]}

EventType(kind) ==
    CASE kind = "Put" -> "PUT" [] kind = "Attest" -> "ATTEST"
      [] kind = "Vote" -> "VOTE" [] kind = "Finalize" -> "FINALIZE"
      [] kind = "Stake" -> "STAKE" [] kind = "Unstake" -> "UNSTAKE"
      [] kind = "Like" -> "LIKE" [] kind = "Unlike" -> "UNLIKE"
      [] OTHER -> "UPDATE_RESPECT"

\* The events a block of the given number can contribute.
InputEvents(block_num) ==
    {Event("trx1", block_num, 1700, EventType(p.kind), p) : p \in InputPayloads}
    \cup {[tx_hash |-> "trx1", block_num |-> block_num, timestamp |-> 1700,
           event_type |-> "PUT", data |-> None]}

InputBlockNums == {7, 8}

RECURSIVE SeqsUpTo(_, _)
SeqsUpTo(S, n) ==
    IF n = 0 THEN {<<>>}
    ELSE LET shorter == SeqsUpTo(S, n - 1)
         IN shorter \cup {Append(q, x) : q \in shorter, x \in S}

\* The host delivers the Events of the next block to both store handlers.
DeliverEvents ==
    /\ stats_done /\ activity_done
    /\ delivered < MaxDeliveries
    /\ \E n \in InputBlockNums : pending' \in SeqsUpTo(InputEvents(n), MaxBatch)
    /\ delivered' = delivered + 1
    /\ stats_done' = FALSE
    /\ activity_done' = FALSE
    /\ UNCHANGED <<part, stats, activity>>
    /\ UNCHANGED mapVars

\* The host ends the first sub-range: what follows is aggregated into the
\* second sub-range's store, which starts empty.
SplitRange ==
    /\ part = "first"
    /\ stats_done /\ activity_done
    /\ part' = "second"
    /\ UNCHANGED <<pending, delivered, stats, activity, stats_done, activity_done>>
    /\ UNCHANGED mapVars

\* store_stats runs on the delivered Events, in the run over the whole range
\* and in the run over the current sub-range.  The message is gone once both
\* store handlers have consumed it.
StoreStats ==
    /\ ~stats_done
    /\ stats' = [stats EXCEPT !["whole"] = store_stats(pending, @),
                              ![part] = store_stats(pending, @)]
    /\ stats_done' = TRUE
    /\ pending' = IF activity_done THEN <<>> ELSE pending
    /\ UNCHANGED <<delivered, part, activity, activity_done>>
    /\ UNCHANGED mapVars

\* store_account_activity runs on the delivered Events, likewise.
StoreAccountActivity ==
    /\ ~activity_done
    /\ activity' = [activity EXCEPT
                      !["whole"] = store_account_activity(pending, @),
                      ![part] = store_account_activity(pending, @)]
    /\ activity_done' = TRUE
    /\ pending' = IF stats_done THEN <<>> ELSE pending
    /\ UNCHANGED <<delivered, part, stats, stats_done>>
    /\ UNCHANGED mapVars

\* The store handlers run on their own: no block is delivered to the maps.
StoreRunInit ==
    /\ params = ""
    /\ block = [number |-> 7, id |-> "block7", header |-> None,
                transactions |-> <<>>]
    /\ events_out = None
    /\ anchored_out = None
    /\ StoreInit

StoreNext ==
    \/ DeliverEvents
    \/ SplitRange
    \/ StoreStats
    \/ StoreAccountActivity

StoreSpec == StoreRunInit /\ [][StoreNext]_vars


\* ------------------------------------------------------------------ properties
\* Helpers of the properties below.
EventsRun == IsSome(events_out)
AnchoredRun == IsSome(anchored_out)
EventsOf(out) == out[1].result.events
OriginOf(out) == out[1].origin
LogOf(out) == out[1].log

\* The trace at `pos` is one the handlers look at: its transaction has a
\* receipt and its receiver is the configured contract account.
Eligible(pos) ==
    /\ IsSome(TrxAt(block, pos).receipt)
    /\ TraceAt(block, pos).receiver = contract_account(params)

AllPositions == {TracePositions(block, 1)[i] : i \in 1..NumTraces(block)}

\* Execution order of two traces: transaction order, then trace order.
Before(p, q) == p[1] < q[1] \/ (p[1] = q[1] /\ p[2] < q[2])

StoreKeys(f) == DOMAIN f["whole"] \cup DOMAIN f["first"] \cup DOMAIN f["second"]

Additive(f) ==
    \A k \in StoreKeys(f) :
        StoreGet(f["whole"], k) = StoreGet(f["first"], k) + StoreGet(f["second"], k)

\* C1 (additivity): for every counter key, the value aggregated over the
\* whole range of delivered Events equals the sum of the values aggregated
\* independently (each from an empty store) over the first and the second
\* sub-range, wherever the range is split.
C1_Additivity == Additive(stats) /\ Additive(activity)

\* Both sub-ranges have contributed to the same per-account key.
C1_Witness ==
    /\ part = "second" /\ stats_done /\ activity_done
    /\ "account:alice:last_block" \in DOMAIN activity["first"]
    /\ "account:alice:last_block" \in DOMAIN activity["second"]
    /\ "total_puts" \in DOMAIN stats["first"]
    /\ "total_puts" \in DOMAIN stats["second"]

\* C2 (filter correctness): every Event and every AnchoredEvent in the
\* handlers' outputs comes from an action trace whose receiver is the
\* configured contract account (empty params meaning "polaris") and whose
\* transaction has a receipt; the record carries that transaction's id.
C2_FilterCorrectness ==
    /\ EventsRun =>
         /\ Len(OriginOf(events_out)) = Len(EventsOf(events_out))
         /\ \A i \in 1..Len(OriginOf(events_out)) :
              /\ Eligible(OriginOf(events_out)[i])
              /\ EventsOf(events_out)[i].tx_hash
                   = TrxAt(block, OriginOf(events_out)[i]).id
    /\ AnchoredRun =>
         /\ Len(OriginOf(anchored_out)) = Len(EventsOf(anchored_out))
         /\ \A i \in 1..Len(OriginOf(anchored_out)) :
              /\ Eligible(OriginOf(anchored_out)[i])
              /\ EventsOf(anchored_out)[i].trx_id
                   = TrxAt(block, OriginOf(anchored_out)[i]).id
              /\ EventsOf(anchored_out)[i].action_ordinal
                   = TraceAt(block, OriginOf(anchored_out)[i]).execution_index

\* Both handlers have emitted something from a block that also holds a put
\* for another receiver and a put in a transaction without a receipt.
C2_Witness ==
    /\ EventsRun /\ AnchoredRun
    /\ Len(EventsOf(events_out)) = 1
    /\ Len(EventsOf(anchored_out)) = 1
    /\ \E p \in AllPositions :
         /\ IsSome(TrxAt(block, p).receipt)
         /\ TraceAt(block, p).receiver # contract_account(params)
         /\ IsSome(TraceAt(block, p).action)
    /\ \E p \in AllPositions :
         /\ IsNone(TrxAt(block, p).receipt)
         /\ TraceAt(block, p).receiver = contract_account(params)
         /\ IsSome(TraceAt(block, p).action)
         /\ TraceAt(block, p).action[1].name = "put"

\* The origins of an output are in execution order, each trace at most
\* once, and each is a trace of the filtered walk.
InExecutionOrder(origin) ==
    /\ \A i, j \in 1..Len(origin) : i < j => Before(origin[i], origin[j])
    /\ \A i \in 1..Len(origin) :
         \E k \in 1..Len(action_traces(block)) : action_traces(block)[k] = origin[i]

\* C3 (order preservation): the records of each output appear in the
\* execution order of the traces they come from (transactions in block
\* order, then traces in transaction order), at most one per trace, and the
\* record at each place is the one its trace yields: the output is an
\* order-preserving subsequence of the filtered trace sequence.
C3_OrderPreservation ==
    /\ EventsRun =>
         /\ InExecutionOrder(OriginOf(events_out))
         /\ \A i \in 1..Len(OriginOf(events_out)) :
              map_events_closure(params, block, OriginOf(events_out)[i])
                = Some(EventsOf(events_out)[i])
    /\ AnchoredRun =>
         /\ InExecutionOrder(OriginOf(anchored_out))
         /\ \A i \in 1..Len(OriginOf(anchored_out)) :
              map_anchored_events_closure(params, block,
                                          OriginOf(anchored_out)[i]).out
                = Some(EventsOf(anchored_out)[i])

\* Three traces were walked over two transactions, the middle one was
\* dropped by both handlers, and the first and the third were emitted.
C3_Witness ==
    /\ EventsRun /\ AnchoredRun
    /\ Len(block.transactions) = 2
    /\ Len(action_traces(block)) = 3
    /\ OriginOf(events_out) = <<action_traces(block)[1], action_traces(block)[3]>>
    /\ OriginOf(anchored_out) = <<action_traces(block)[1], action_traces(block)[3]>>
    /\ action_traces(block)[1][1] # action_traces(block)[3][1]


\* The action of the trace an AnchoredEvent comes from.
OriginAction(i) == TraceAt(block, OriginOf(anchored_out)[i]).action[1]

\* C4 as stated: two AnchoredEvents whose originating actions carry
\* identical raw payload bytes have identical event_hash, whatever their
\* JSON payload and whichever decode path was taken.
C4_Original ==
    AnchoredRun =>
      \A i, j \in 1..Len(EventsOf(anchored_out)) :
          OriginAction(i).raw_data = OriginAction(j).raw_data
            => EventsOf(anchored_out)[i].event_hash
                 = EventsOf(anchored_out)[j].event_hash

\* C4 (identity stability, amended): event_hash is determined by the emitted
\* payload bytes: two AnchoredEvents with identical payload have identical
\* event_hash, whichever transaction they are in and whichever decode path
\* produced the payload.
C4_IdentityStability ==
    AnchoredRun =>
      \A i, j \in 1..Len(EventsOf(anchored_out)) :
          EventsOf(anchored_out)[i].payload = EventsOf(anchored_out)[j].payload
            => EventsOf(anchored_out)[i].event_hash
                 = EventsOf(anchored_out)[j].event_hash

\* Two AnchoredEvents of different transactions carry the same payload, and
\* a third one, with another payload, has another event_hash.
C4_Witness ==
    /\ AnchoredRun
    /\ Len(EventsOf(anchored_out)) = 3
    /\ EventsOf(anchored_out)[1].payload = EventsOf(anchored_out)[3].payload
    /\ EventsOf(anchored_out)[1].trx_id # EventsOf(anchored_out)[3].trx_id
    /\ EventsOf(anchored_out)[1].payload # EventsOf(anchored_out)[2].payload
    /\ EventsOf(anchored_out)[1].event_hash # EventsOf(anchored_out)[2].event_hash

\* The "hash" member of an emitted payload, when the payload parses and the
\* member is a string.
PayloadHash(e) ==
    IF from_str(e.payload).ok THEN get_str(from_str(e.payload).val, "hash")
    ELSE None

\* C5 (content-hash invariant): every AnchoredEvent has event_hash equal to
\* the digest of its own payload; content_hash equals event_hash unless the
\* action is a put; and for a put whose payload carries an extractable hash
\* member, content_hash is that member's value verbatim.
C5_ContentHash ==
    AnchoredRun =>
      \A i \in 1..Len(EventsOf(anchored_out)) :
        LET e == EventsOf(anchored_out)[i]
        IN /\ e.event_hash = Sha256Hex(e.payload)
           /\ e.action_name # "put" => e.content_hash = e.event_hash
           /\ (e.action_name = "put" /\ IsSome(PayloadHash(e)))
                => e.content_hash = PayloadHash(e)[1]

\* A vote, a put taken down the JSON path and a put taken down the raw-bytes
\* path were emitted, both puts with the hash member as content_hash.
C5_Witness ==
    /\ AnchoredRun
    /\ Len(EventsOf(anchored_out)) = 3
    /\ \E i \in 1..3 : EventsOf(anchored_out)[i].action_name = "vote"
    /\ \E i \in 1..3 :
         /\ EventsOf(anchored_out)[i].action_name = "put"
         /\ OriginAction(i).json_data # <<>>
         /\ EventsOf(anchored_out)[i].content_hash = "abc123"
         /\ EventsOf(anchored_out)[i].content_hash
              # EventsOf(anchored_out)[i].event_hash
    /\ \E i \in 1..3 :
         /\ EventsOf(anchored_out)[i].action_name = "put"
         /\ OriginAction(i).json_data = <<>>
         /\ EventsOf(anchored_out)[i].content_hash = "abc123"

\* The trace at `pos` is a put for the configured contract, in an executed
\* transaction.
EligiblePut(pos) ==
    /\ Eligible(pos)
    /\ IsSome(TraceAt(block, pos).action)
    /\ TraceAt(block, pos).action[1].name = "put"

\* ... with a JSON payload that does not parse or has no "hash" member.
PutWithoutHash(pos) ==
    /\ EligiblePut(pos)
    /\ TraceAt(block, pos).action[1].json_data # <<>>
    /\ \/ ~from_str(TraceAt(block, pos).action[1].json_data).ok
       \/ IsNone(get(from_str(TraceAt(block, pos).action[1].json_data).val, "hash"))

\* ... with a JSON payload from which no hash string can be taken (also when
\* the member is there and is not a string).
PutFallback(pos) ==
    /\ EligiblePut(pos)
    /\ TraceAt(block, pos).action[1].json_data # <<>>
    /\ \/ ~from_str(TraceAt(block, pos).action[1].json_data).ok
       \/ IsNone(get_str(from_str(TraceAt(block, pos).action[1].json_data).val,
                         "hash"))

\* ... with no JSON payload and raw bytes that do not decode.
PutUndecodable(pos) ==
    /\ EligiblePut(pos)
    /\ TraceAt(block, pos).action[1].json_data = <<>>
    /\ ~decode("put", TraceAt(block, pos).action[1]).ok

EmittedFrom(pos) ==
    {i \in 1..Len(OriginOf(anchored_out)) : OriginOf(anchored_out)[i] = pos}

\* C6 (fallback on a put whose JSON omits the hash or is malformed): the
\* handler returns Ok and emits exactly one AnchoredEvent for that trace,
\* with content_hash equal to event_hash.
C6_FallbackEmits ==
    AnchoredRun =>
      /\ anchored_out[1].result.ok
      /\ \A pos \in AllPositions :
           PutWithoutHash(pos) =>
             /\ Cardinality(EmittedFrom(pos)) = 1
             /\ \A i \in EmittedFrom(pos) :
                  EventsOf(anchored_out)[i].content_hash
                    = EventsOf(anchored_out)[i].event_hash

\* The handler has run on a block with a put whose JSON omits the hash and a
\* put whose JSON is malformed.
C6_Witness ==
    /\ AnchoredRun
    /\ \E pos \in AllPositions :
         /\ PutWithoutHash(pos)
         /\ from_str(TraceAt(block, pos).action[1].json_data).ok
    /\ \E pos \in AllPositions :
         /\ PutWithoutHash(pos)
         /\ ~from_str(TraceAt(block, pos).action[1].json_data).ok

\* C7 as stated: a put without JSON payload whose raw bytes do not decode
\* still yields an AnchoredEvent, with content_hash equal to event_hash.
C7_Original ==
    AnchoredRun =>
      \A pos \in AllPositions :
        PutUndecodable(pos) =>
          \E i \in EmittedFrom(pos) :
            EventsOf(anchored_out)[i].content_hash
              = EventsOf(anchored_out)[i].event_hash

\* C7 (amended): the fallback covers the JSON path only.  A put without JSON
\* payload whose raw bytes do not decode yields no AnchoredEvent; the failure
\* is logged for that trace and the handler still returns Ok.
C7_DecodeFailureDrops ==
    AnchoredRun =>
      /\ anchored_out[1].result.ok
      /\ \A pos \in AllPositions :
           PutUndecodable(pos) =>
             /\ EmittedFrom(pos) = {}
             /\ \E k \in 1..Len(LogOf(anchored_out)) :
                  LogOf(anchored_out)[k] = LogAt(pos, "Failed to decode put action")

\* The handler has run on a block with an undecodable put between two traces
\* it emitted.
C7_Witness ==
    /\ AnchoredRun
    /\ Len(action_traces(block)) = 3
    /\ PutUndecodable(action_traces(block)[2])
    /\ Len(EventsOf(anchored_out)) = 2

\* C8 as stated: whenever the content-hash fallback is engaged for a put
\* (hash missing, hash not a string, malformed JSON), a log entry is
\* recorded for that action.
C8_Original ==
    AnchoredRun =>
      \A pos \in AllPositions :
        PutFallback(pos) =>
          \E k \in 1..Len(LogOf(anchored_out)) :
            LogOf(anchored_out)[k].at = Some(pos)

\* The block has no header, or its header has no timestamp.
NoTimestamp(b) ==
    IsNone(b.header) \/ IsNone(b.header[1].timestamp)

\* C9 as stated: when the block has no header or the header has no
\* timestamp, neither handler emits anything.
C9_Original ==
    NoTimestamp(block) =>
      /\ EventsRun => EventsOf(events_out) = <<>>
      /\ AnchoredRun => EventsOf(anchored_out) = <<>>

\* The same block with a header that has a timestamp.
WithTimestamp(b) ==
    [b EXCEPT !.header = Some([timestamp |-> Some([seconds |-> 1700])])]

ZeroTimestamp(recs) == [i \in 1..Len(recs) |-> [recs[i] EXCEPT !.timestamp = 0]]

\* C9 (amended): a missing header or timestamp is not a failure.  The
\* timestamp defaults to 0 and every trace is handled as otherwise: both
\* handlers emit the records they emit for the same block with a timestamp,
\* with timestamp 0 in its place.
C9_TimestampDefaultsToZero ==
    NoTimestamp(block) =>
      /\ EventsRun =>
           EventsOf(events_out)
             = ZeroTimestamp(map_events(params, WithTimestamp(block)).events)
      /\ AnchoredRun =>
           EventsOf(anchored_out)
             = ZeroTimestamp(map_anchored_events(params, WithTimestamp(block)).events)

\* Both handlers have emitted from a block whose header has no timestamp.
C9_Witness ==
    /\ IsSome(block.header) /\ IsNone(block.header[1].timestamp)
    /\ EventsRun /\ AnchoredRun
    /\ Len(EventsOf(events_out)) = 2
    /\ Len(EventsOf(anchored_out)) = 2

\* The trace at `pos` is one map_events looks at and cannot turn into an
\* Event: it has no action, its action name is not a known one, or its
\* payload does not decode.
KnownNames == {"put", "attest", "vote", "finalize", "stake", "unstake", "like",
               "unlike", "updrespect"}

FailingTrace(pos) ==
    /\ Eligible(pos)
    /\ \/ IsNone(TraceAt(block, pos).action)
       \/ TraceAt(block, pos).action[1].name \notin KnownNames
       \/ ~decode(TraceAt(block, pos).action[1].name, TraceAt(block, pos).action[1]).ok

\* The block without the trace at `pos`.
WithoutTrace(b, pos) ==
    [b EXCEPT !.transactions[pos[1]].action_traces =
        SubSeq(@, 1, pos[2] - 1) \o SubSeq(@, pos[2] + 1, Len(@))]

\* C10 (totality and isolation of map_events): map_events returns Ok; every
\* Event it emits is complete; a trace that is unroutable or whose decode
\* fails contributes no Event, and the Events emitted are exactly those
\* emitted for the block without that trace.
C10_FailureIsolation ==
    EventsRun =>
      /\ events_out[1].result.ok
      /\ \A i \in 1..Len(EventsOf(events_out)) :
           IsSome(EventPayload(EventsOf(events_out)[i]))
      /\ \A pos \in AllPositions :
           FailingTrace(pos) =>
             /\ \A i \in 1..Len(OriginOf(events_out)) :
                  OriginOf(events_out)[i] # pos
             /\ EventsOf(events_out)
                  = map_events(params, WithoutTrace(block, pos)).events

\* map_events has run on a block holding a trace whose decode fails and a
\* trace with an unknown action name, and has emitted an Event from a third.
C10_Witness ==
    /\ EventsRun
    /\ Len(EventsOf(events_out)) = 1
    /\ \E pos \in AllPositions :
         /\ FailingTrace(pos)
         /\ IsSome(TraceAt(block, pos).action)
         /\ TraceAt(block, pos).action[1].name = "put"
    /\ \E pos \in AllPositions :
         /\ FailingTrace(pos)
         /\ IsSome(TraceAt(block, pos).action)
         /\ TraceAt(block, pos).action[1].name = "setoracle"


\* The counting rule, stated on a message of Events: how much each key is to
\* grow when the message is aggregated.
KindOf(e) == IF IsNone(EventPayload(e)) THEN "none" ELSE EventPayload(e)[1].kind

\* The account a PUT (author), VOTE (voter), STAKE or LIKE (account) names.
NamedAccount(e) ==
    CASE KindOf(e) = "Put" -> EventPayload(e)[1].author
      [] KindOf(e) = "Vote" -> EventPayload(e)[1].voter
      [] KindOf(e) \in {"Stake", "Like"} -> EventPayload(e)[1].account
      [] OTHER -> ""

CountKind(evs, kind) == Cardinality({i \in 1..Len(evs) : KindOf(evs[i]) = kind})

CountAccount(evs, a) == Cardinality({i \in 1..Len(evs) : NamedAccount(evs[i]) = a})

RECURSIVE SumBlocks(_, _)
SumBlocks(evs, a) ==
    IF evs = <<>> THEN 0
    ELSE (IF NamedAccount(Head(evs)) = a THEN Head(evs).block_num ELSE 0)
         + SumBlocks(Tail(evs), a)

StatsKeys == {"total_events", "total_puts", "total_votes", "total_stakes",
              "total_likes"}

StatsGrowth(evs, key) ==
    CASE key = "total_events" -> Len(evs)
      [] key = "total_puts" -> CountKind(evs, "Put")
      [] key = "total_votes" -> CountKind(evs, "Vote")
      [] key = "total_stakes" -> CountKind(evs, "Stake")
      [] key = "total_likes" -> CountKind(evs, "Like")
      [] OTHER -> 0

AccountIds == {"alice", "bob"}
EventsKey(a) == "account:" \o a \o ":events"
LastBlockKey(a) == "account:" \o a \o ":last_block"
ActivityKeys == {EventsKey(a) : a \in AccountIds} \cup {LastBlockKey(a) : a \in AccountIds}

ActivityGrowth(evs, key) ==
    IF \E a \in AccountIds : key = EventsKey(a)
    THEN CountAccount(evs, CHOOSE a \in AccountIds : key = EventsKey(a))
    ELSE IF \E a \in AccountIds : key = LastBlockKey(a)
    THEN SumBlocks(evs, CHOOSE a \in AccountIds : key = LastBlockKey(a))
    ELSE 0

\* `new` is `old` with every key grown as the rule says, and holds no key
\* other than those of `old` and those that grew.
GrownBy(old, new, keys, Growth(_)) ==
    /\ DOMAIN new = DOMAIN old \cup {k \in keys : Growth(k) > 0}
    /\ \A k \in DOMAIN new : new[k] = StoreGet(old, k) + Growth(k)

\* C11 (counting rule): the stores start empty, and aggregating a message of
\* Events grows total_events by the number of its events, total_puts,
\* total_votes, total_stakes and total_likes by the numbers of its PUT, VOTE,
\* STAKE and LIKE events, account:<id>:events by the number of its PUT (as
\* author), VOTE (as voter), STAKE and LIKE (as account) events naming <id>
\* and account:<id>:last_block by the sum of those events' block numbers,
\* and changes no other key: events of the other five types grow only
\* total_events.
C11_CountingRule ==
    /\ stats["whole"] = EmptyStore /\ activity["whole"] = EmptyStore
    /\ [][/\ (~stats_done /\ stats_done') =>
               LET StatsBy(k) == StatsGrowth(pending, k)
               IN \A r \in Ranges :
                    IF r \in {"whole", part}
                    THEN GrownBy(stats[r], stats'[r], StatsKeys, StatsBy)
                    ELSE stats'[r] = stats[r]
          /\ (~activity_done /\ activity_done') =>
               LET ActivityBy(k) == ActivityGrowth(pending, k)
               IN \A r \in Ranges :
                    IF r \in {"whole", part}
                    THEN GrownBy(activity[r], activity'[r], ActivityKeys, ActivityBy)
                    ELSE activity'[r] = activity[r]
          /\ stats' # stats => (~stats_done /\ stats_done')
          /\ activity' # activity => (~activity_done /\ activity_done')
       ]_vars

\* One PUT by alice in block 7 was aggregated from empty stores and gave
\* exactly total_events 1, total_puts 1, account:alice:events 1 and
\* account:alice:last_block 7; then an event of another type was aggregated
\* in the second sub-range and grew total_events alone.
C11_Witness ==
    /\ stats_done /\ activity_done /\ delivered = 2 /\ part = "second"
    /\ stats["first"] = ("total_events" :> 1 @@ "total_puts" :> 1)
    /\ activity["first"] = ("account:alice:events" :> 1
                            @@ "account:alice:last_block" :> 7)
    /\ stats["second"] = ("total_events" :> 1)
    /\ activity["second"] = EmptyStore
    /\ stats["whole"] = ("total_events" :> 2 @@ "total_puts" :> 1)
    /\ activity["whole"] = activity["first"]

====
